---- MODULE Spec2Model ----
(***************************************************************************)
(* Model of dump.py: ElasticDump exports every index of a document store   *)
(* to one JSON file per index, the per-index work running on a             *)
(* ThreadPoolExecutor.                                                     *)
(*                                                                         *)
(* One program run is modelled (lines 96-99): the dumper is constructed,   *)
(* then run() lists the indices, submits one process_index call per index  *)
(* and waits for the pool.  Every request to the store and every file      *)
(* operation is a step of its own and may succeed or raise.                *)
(***************************************************************************)
EXTENDS Integers, Sequences, FiniteSets, Bags, TLC

\* ---------------------------------------------------------------- bounds
MaxIndices == 2      \* the store holds 0..MaxIndices indices
MaxDocs == 2         \* an index holds 0..MaxDocs documents
MaxSize == 2         \* config 'size' (page size) is 1..MaxSize
MaxWorkers == 2      \* config 'workers' is 1..MaxWorkers
MaxTime == 0         \* int(time()) reads 0..MaxTime
MaxStamp == 10       \* exports compared by name are stamped 0..MaxStamp
MaxGroups == 2       \* the configuration file holds 0..MaxGroups groups

VARIABLES
    pc,          \* position of the main thread
    dirExists,   \* does the output directory exist
    workers,     \* config 'workers'
    size,        \* config 'size'
    store,       \* store[i]: number of documents the store holds in index i
    listing,     \* outcome of the get_indices call: "pending", "ok", "failed"
    indices,     \* run(): the list returned by get_indices (index numbers)
    submitted,   \* run(): how many of indices have been submitted so far
    kept,        \* run(): the futures the coordinator holds a reference to
    raised,      \* the exception that left run(), "none" if none
    st,          \* st[i]: state of the process_index task of index i
    exc,         \* exc[i]: the exception stored in the future of task i
    results,     \* results[i]: the hits collected so far by task i
    searches,    \* searches[i]: number of scans opened on index i
    cursor,      \* cursor[i]: position of the server-side scroll cursor
    fname,       \* fname[i]: the file name task i derived
    files,       \* the output directory: file name -> content (tokens)
    printed,     \* the status lines written to stdout
    cur,         \* the dumper in use: its store and its directory
    tree,        \* the file system: path -> number of the export that wrote it
    log,         \* the successful exports made so far, in order
    yaml,        \* load_config: the groups of the file, in file order
    flat,        \* load_config: flat_config
    grp,         \* load_config: number of groups the loop has visited
    loaded,      \* load_config: has it returned
    dumper,      \* the instance bound to the global name 'dumper'
    runner,      \* the instance whose run() was called
    bpc,         \* position of that run()
    btasks,      \* the tasks that run() submitted: target and state
    stalled      \* the tasks whose pending store request never returns

vars == <<pc, dirExists, workers, size, store, listing, indices, submitted,
          kept, raised, st, exc, results, searches, cursor, fname, files,
          printed, cur, tree, log, yaml, flat, grp, loaded, dumper, runner,
          bpc, btasks, stalled>>

\* ------------------------------------------------------------ index names
\* Index names are strings, modelled as sequences of characters.
AllNames ==
    << <<"a">>, <<"b">>, <<"a", "_", "1">>, <<"b", "_", "0">>, <<"c">> >>

Ids == DOMAIN store

IndexName(i) == AllNames[i]

NoFile == << >>

\* ----------------------------------------------------------- file naming
Digits == <<"0", "1", "2", "3", "4", "5", "6", "7", "8", "9">>

RECURSIVE Str(_)
\* str(n) of a non-negative integer, as a sequence of characters
Str(n) == IF n < 10 THEN <<Digits[n + 1]>>
          ELSE Str(n \div 10) \o <<Digits[(n % 10) + 1]>>

\* variant: the file is named after the index alone
FileNameNoStamp(name, ts) == name \o <<".json">>

\* variant: index name and timestamp are joined without a separator
FileNameNoSep(name, ts) == name \o Str(ts) \o <<".json">>

\* f"{index_name}_{int(time())}.json"
FileName(name, ts) == name \o <<"_">> \o Str(ts) \o <<".json">>

\* host.replace(".", "_")
Sanitize(host) ==
    [k \in 1..Len(host) |-> IF host[k] = "." THEN "_" ELSE host[k]]

\* Path(config.get("directory")).joinpath(host.replace(".", "_")): the port
\* is not part of the path
ArtifactDir(directory, host) == <<directory, Sanitize(host)>>

\* self.__path.joinpath(filename)
ArtifactPath(dir, filename) == Append(dir, filename)

\* ------------------------------------------------------------------ scan
Min(a, b) == IF a < b THEN a ELSE b

\* The documents of an index holding d documents are Doc(1)..Doc(d).
AllDocs == <<"d1", "d2", "d3", "d4", "d5", "d6">>
Doc(k) == AllDocs[k]

\* One response of the store to search/scroll with the cursor at position c:
\* the next (at most size) hits, empty once the cursor is exhausted.
Page(d, c) == [k \in 1..(Min(c + size, d) - c) |-> Doc(c + k)]

\* variant: each page replaces what was collected before
CollectDropPage(res, hits) == hits

\* results = list(generator): every hit the generator yields is appended
Collect(res, hits) == res \o hits

\* helpers.scan: while scroll_id and resp["hits"]["hits"]
ScanContinues(hits) == hits # << >>

\* ------------------------------------------------------------ json.dump
RECURSIVE Join(_)
Join(docs) == IF Len(docs) = 0 THEN << >>
              ELSE IF Len(docs) = 1 THEN <<docs[1]>>
              ELSE <<docs[1], ",">> \o Join(Tail(docs))

\* variant: the last document is not written
SerializeDropLast(docs) ==
    <<"[">> \o Join(SubSeq(docs, 1, Len(docs) - 1)) \o <<"]">>

\* json.dump(results, output_file): the tokens of a JSON array
Serialize(docs) == <<"[">> \o Join(docs) \o <<"]">>

\* the items of "d , d , d"; <<"invalid">> if the tokens are not of that form
ParseItems(toks) ==
    IF Len(toks) = 0 THEN << >>
    ELSE IF \/ Len(toks) % 2 = 0
            \/ \E k \in 1..Len(toks) :
                  IF k % 2 = 0 THEN toks[k] # ","
                  ELSE toks[k] \in {",", "[", "]"}
         THEN <<"invalid">>
         ELSE [k \in 1..((Len(toks) + 1) \div 2) |-> toks[2 * k - 1]]

\* json.load of a file's content: the array's items, or <<"invalid">> when
\* the content is not a complete JSON array
Parse(toks) ==
    IF Len(toks) < 2 \/ toks[1] # "[" \/ toks[Len(toks)] # "]"
    THEN <<"invalid">>
    ELSE LET items == ParseItems(SubSeq(toks, 2, Len(toks) - 1))
         IN IF \E k \in 1..Len(items) : items[k] = "invalid"
            THEN <<"invalid">> ELSE items

\* how many times e occurs in the sequence s
Count(s, e) == Cardinality({k \in 1..Len(s) : s[k] = e})

\* ------------------------------------------------------------ the pool
Active == {"scanning", "collected", "writing"}
Running == {i \in Ids : st[i] \in Active}

\* variant: a pool with a single worker thread
FreeWorkerSingle == Cardinality(Running) < 1

\* variant: a pool that starts a thread for every task
FreeWorkerAlways == TRUE

\* ThreadPoolExecutor(max_workers=workers): at most that many worker threads
FreeWorker == Cardinality(Running) < workers

\* the pool's work queue is first in, first out: the task a worker takes is
\* the earliest submitted one still queued
HeadOfQueue(i) ==
    \A k \in 1..submitted :
        indices[k] # i /\ st[indices[k]] = "queued" =>
            \E m \in 1..(k - 1) : indices[m] = i

\* variant: shutdown without waiting
PoolIdleNoWait == TRUE

\* executor.shutdown(wait=True) and the with block's exit: the work queue is
\* drained and every worker thread joined
PoolIdle == \A i \in Ids : st[i] \notin Active \cup {"queued"}

\* variant: the first exception cancels the tasks still queued
TaskRaisedCancelsQueued(s, i) ==
    [j \in DOMAIN s |-> IF j = i THEN "failed"
                        ELSE IF s[j] = "queued" THEN "cancelled" ELSE s[j]]

\* an exception raised inside process_index is stored in the task's future;
\* no other task is touched
TaskRaised(s, i) == [s EXCEPT ![i] = "failed"]

\* variant: the scan's exception is swallowed and the task goes on to write
ScanRaisedSwallowed(s, i) == [s EXCEPT ![i] = "collected"]

\* list(generator) raises: process_index is left at line 80, nothing is
\* written and nothing is retried
ScanRaised(s, i) == TaskRaised(s, i)

\* executor.submit(...): the future submit returns is dropped
Retain(k, i) == k

\* variant: the listing's exception is swallowed, run() goes on with no index
ListingRaisedSwallowed == <<"submitting", "none">>

\* self.get_indices() raising inside run(): nothing catches it, the exception
\* leaves run() before the executor is created (new pc, exception raised)
ListingRaised == <<"raised", "StoreUnavailable">>

\* variant: an empty listing is treated as an error
AfterListingEmptyIsError(names) ==
    IF names = << >> THEN <<"raised", "NoIndices">>
    ELSE <<"submitting", "none">>

\* run(): whatever get_indices returned, the empty list included, is iterated
\* (new pc, exception raised)
AfterListing(names) == <<"submitting", "none">>

\* variant: the loop stops one index short
LoopOverEarly == submitted >= Len(indices) - 1

\* run(): for es_index in indices is over once every element was visited
LoopOver == submitted = Len(indices)

\* print(f"Index: {index_name}, documents: {len(results)}")
StatusLine(i, n) == [kind |-> "status", index |-> IndexName(i), documents |-> n]

\* ----------------------------------------------------- exports by name
\* The stores, index names and output directory the naming is tried on.
Hosts == {<<"e", "s">>, <<"e", ".", "s">>, <<"e", "_", "s">>}
Ports == {9200, 9201}
ExportNames == {<<"a">>, <<"a", "1">>, <<"a", "_", "1">>}
Directory == "dumps"
NoDumper == [host |-> << >>, port |-> 0, dir |-> << >>]

naming == <<cur, tree, log>>
loading == <<yaml, flat, grp, loaded>>
binding == <<dumper, runner, bpc, btasks>>
side == <<naming, loading, binding, stalled>>

\* load_config has not been called
NotLoading == yaml = << >> /\ flat = << >> /\ grp = 0 /\ loaded = FALSE

\* the program of lines 96-99: one instance, bound to the global name
Instances == {"X", "Y", "Z"}
OneInstance ==
    dumper = "X" /\ runner = "X" /\ bpc = "program" /\ btasks = << >>

\* no dumper constructed and no export made
NoExports == cur = NoDumper /\ tree = << >> /\ log = << >>

\* ------------------------------------------------------------------ Init
Init ==
    /\ pc = "start"
    /\ dirExists = FALSE
    /\ workers \in 1..MaxWorkers
    /\ size \in 1..MaxSize
    /\ \E n \in 0..MaxIndices : store \in [1..n -> 0..MaxDocs]
    /\ listing = "pending"
    /\ indices = << >>
    /\ submitted = 0
    /\ kept = {}
    /\ raised = "none"
    /\ st = [i \in DOMAIN store |-> "unsubmitted"]
    /\ exc = [i \in DOMAIN store |-> "none"]
    /\ results = [i \in DOMAIN store |-> << >>]
    /\ searches = [i \in DOMAIN store |-> 0]
    /\ cursor = [i \in DOMAIN store |-> 0]
    /\ fname = [i \in DOMAIN store |-> NoFile]
    /\ files = << >>
    /\ printed = {}
    /\ NoExports
    /\ NotLoading
    /\ OneInstance
    /\ stalled = {}

config == <<workers, size, store>>
main == <<listing, indices, submitted, kept, raised>>
taskVars == <<st, exc, results, searches, cursor, fname, files, printed>>

\* ----------------------------------------------------------- main thread
\* ElasticDump.__init__: the output directory is created with its parents
Construct ==
    /\ pc = "start"
    /\ dirExists' = TRUE
    /\ pc' = "constructed"
    /\ UNCHANGED <<side, config, listing, indices, submitted, kept, raised,
                   taskVars>>

\* run(): get_indices returns the names of the store's indices
ListOk ==
    /\ pc = "constructed"
    /\ listing' = "ok"
    /\ indices' = [k \in 1..Cardinality(Ids) |-> k]
    /\ pc' = AfterListing(indices')[1]
    /\ raised' = AfterListing(indices')[2]
    /\ UNCHANGED <<side, config, dirExists, submitted, kept, taskVars>>

\* run(): get_indices raises (store unreachable, request rejected)
ListFail ==
    /\ pc = "constructed"
    /\ listing' = "failed"
    /\ pc' = ListingRaised[1]
    /\ raised' = ListingRaised[2]
    /\ UNCHANGED <<side, config, dirExists, indices, submitted, kept,
                   taskVars>>

\* run(): one turn of the for loop
Submit ==
    /\ pc = "submitting"
    /\ ~LoopOver
    /\ LET i == indices[submitted + 1]
       IN /\ st' = [st EXCEPT ![i] = "queued"]
          /\ kept' = Retain(kept, i)
    /\ submitted' = submitted + 1
    /\ UNCHANGED <<side, pc, config, dirExists, listing, indices, raised, exc,
                   results, searches, cursor, fname, files, printed>>

\* run(): the loop is over, shutdown(wait=True) returns, run() returns
Return ==
    /\ pc = "submitting"
    /\ LoopOver
    /\ PoolIdle
    /\ pc' = "returned"
    /\ UNCHANGED <<side, config, dirExists, listing, indices, submitted, kept,
                   raised, taskVars>>

\* --------------------------------------------------------- process_index
\* a worker takes the task from the queue and sends the scan's search request
StartTask(i) ==
    /\ st[i] = "queued"
    /\ HeadOfQueue(i)
    /\ FreeWorker
    /\ st' = [st EXCEPT ![i] = "scanning"]
    /\ searches' = [searches EXCEPT ![i] = @ + 1]
    /\ cursor' = [cursor EXCEPT ![i] = 0]
    /\ results' = [results EXCEPT ![i] = << >>]
    /\ UNCHANGED <<side, pc, config, dirExists, main, exc, fname, files,
                   printed>>

\* the store answers the pending search/scroll request with a page
ScanPage(i) ==
    /\ st[i] = "scanning"
    /\ i \notin stalled
    /\ LET hits == Page(store[i], cursor[i])
       IN IF ScanContinues(hits)
          THEN /\ results' = [results EXCEPT ![i] = Collect(@, hits)]
               /\ cursor' = [cursor EXCEPT ![i] = @ + Len(hits)]
               /\ UNCHANGED <<st, printed>>
          ELSE /\ st' = [st EXCEPT ![i] = "collected"]
               /\ printed' = printed \cup {StatusLine(i, Len(results[i]))}
               /\ cursor' = [cursor EXCEPT ![i] = 0]
               /\ UNCHANGED results
    /\ UNCHANGED <<side, pc, config, dirExists, main, exc, searches, fname,
                   files>>

\* the pending search/scroll request raises (cursor expired, shard failure)
ScanFail(i) ==
    /\ st[i] = "scanning"
    /\ i \notin stalled
    /\ st' = ScanRaised(st, i)
    /\ exc' = [exc EXCEPT ![i] = IF cursor[i] = 0 THEN "SearchError"
                                  ELSE "ScrollError"]
    /\ results' = [results EXCEPT ![i] = << >>]
    /\ cursor' = [cursor EXCEPT ![i] = 0]
    /\ UNCHANGED <<side, pc, config, dirExists, main, searches, fname, files,
                   printed>>

\* dump_to_file: open(mode="w") creates or truncates the file
OpenOk(i) ==
    /\ st[i] = "collected"
    /\ \E ts \in 0..MaxTime :
          LET f == FileName(IndexName(i), ts)
          IN /\ fname' = [fname EXCEPT ![i] = f]
             /\ files' = (f :> << >>) @@ files
    /\ st' = [st EXCEPT ![i] = "writing"]
    /\ UNCHANGED <<side, pc, config, dirExists, main, exc, results, searches,
                   cursor, printed>>

\* dump_to_file: open raises, no file is touched
OpenFail(i) ==
    /\ st[i] = "collected"
    /\ st' = TaskRaised(st, i)
    /\ exc' = [exc EXCEPT ![i] = "OpenError"]
    /\ UNCHANGED <<side, pc, config, dirExists, main, results, searches,
                   cursor, fname, files, printed>>

\* dump_to_file: json.dump writes the array and the file is closed
DumpOk(i) ==
    /\ st[i] = "writing"
    /\ files' = [files EXCEPT ![fname[i]] = Serialize(results[i])]
    /\ st' = [st EXCEPT ![i] = "done"]
    /\ UNCHANGED <<side, pc, config, dirExists, main, exc, results, searches,
                   cursor, fname, printed>>

\* dump_to_file: a write raises; the file keeps what reached it so far
DumpFail(i) ==
    /\ st[i] = "writing"
    /\ LET written == Serialize(results[i])
       IN \E k \in 0..(Len(written) - 1) :
             files' = [files EXCEPT ![fname[i]] = SubSeq(written, 1, k)]
    /\ st' = TaskRaised(st, i)
    /\ exc' = [exc EXCEPT ![i] = "WriteError"]
    /\ UNCHANGED <<side, pc, config, dirExists, main, results, searches,
                   cursor, fname, printed>>

Next ==
    \/ Construct
    \/ ListOk
    \/ ListFail
    \/ Submit
    \/ Return
    \/ \E i \in Ids : StartTask(i)
    \/ \E i \in Ids : ScanPage(i)
    \/ \E i \in Ids : ScanFail(i)
    \/ \E i \in Ids : OpenOk(i)
    \/ \E i \in Ids : OpenFail(i)
    \/ \E i \in Ids : DumpOk(i)
    \/ \E i \in Ids : DumpFail(i)

Spec == Init /\ [][Next]_vars

\* ------------------------------------------------------- a stalling store
\* the store never answers the pending request of task i: the task's worker
\* blocks in list(generator) for good
Stall(i) ==
    /\ st[i] = "scanning"
    /\ i \notin stalled
    /\ stalled' = stalled \cup {i}
    /\ UNCHANGED <<naming, loading, binding, pc, dirExists, config, main,
                   taskVars>>

NextStall == Next \/ \E i \in Ids : Stall(i)

\* The threads are scheduled fairly: as long as some step of the program is
\* possible, a step of the program is taken.  A stall is the store's choice.
FairSpec == Init /\ [][NextStall]_vars /\ WF_vars(Next)

\* ------------------------------------------------- exports, by name only
\* The naming of artifacts over several dumpers and exports: a dumper is
\* constructed for a store, successful exports write their artifact.
runVars == <<pc, dirExists, config, main, taskVars, stalled>>

\* the program has not started and the store holds no index
RunIdle ==
    /\ pc = "start"
    /\ dirExists = FALSE
    /\ workers = 1
    /\ size = 1
    /\ store = << >>
    /\ listing = "pending"
    /\ indices = << >>
    /\ submitted = 0
    /\ kept = {}
    /\ raised = "none"
    /\ st = << >>
    /\ exc = << >>
    /\ results = << >>
    /\ searches = << >>
    /\ cursor = << >>
    /\ fname = << >>
    /\ files = << >>
    /\ printed = {}
    /\ stalled = {}

InitNames == RunIdle /\ NoExports /\ NotLoading /\ OneInstance

\* ElasticDump.__init__ for the store at host:port
NewDumper(h, p) ==
    /\ Len(log) <= 1
    /\ cur' = [host |-> h, port |-> p, dir |-> ArtifactDir(Directory, h)]
    /\ cur' # cur
    /\ UNCHANGED <<tree, log, runVars, loading, binding>>

\* a successful process_index of the dumper in use: the artifact is named
\* (line 82) and written with mode "w" (lines 63-64)
Export(name, ts) ==
    /\ cur # NoDumper
    /\ Len(log) <= 1
    /\ LET path == ArtifactPath(cur.dir, FileName(name, ts))
       IN /\ tree' = (path :> Len(log) + 1) @@ tree
          /\ log' = Append(log, [host |-> cur.host, port |-> cur.port,
                                 dir |-> cur.dir, name |-> name, ts |-> ts,
                                 path |-> path])
    /\ UNCHANGED <<cur, runVars, loading, binding>>

NextNames ==
    \/ \E h \in Hosts, p \in Ports : NewDumper(h, p)
    \/ \E name \in ExportNames, ts \in 0..MaxStamp : Export(name, ts)

SpecNames == InitNames /\ [][NextNames]_vars

\* ----------------------------------------------------------- load_config
OptionNames == {"host", "size"}
OptionValues == {"v", "w"}

\* a group of the file: some option names with their values
Groups == UNION {[names -> OptionValues] : names \in SUBSET OptionNames}

\* variant: an option already present keeps its value
UpdateKeepFirst(table, options) == table @@ options

\* flat_config.update(**options)
Update(table, options) == options @@ table

InitConfig ==
    /\ RunIdle /\ NoExports /\ OneInstance
    /\ \E n \in 0..MaxGroups : yaml \in [1..n -> Groups]
    /\ flat = << >>
    /\ grp = 0
    /\ loaded = FALSE

\* one turn of for options in config_yaml.values()
LoadGroup ==
    /\ ~loaded
    /\ grp < Len(yaml)
    /\ flat' = Update(flat, yaml[grp + 1])
    /\ grp' = grp + 1
    /\ UNCHANGED <<yaml, loaded, runVars, naming, binding>>

\* return flat_config
LoadReturn ==
    /\ ~loaded
    /\ grp = Len(yaml)
    /\ loaded' = TRUE
    /\ UNCHANGED <<yaml, flat, grp, runVars, naming, binding>>

NextConfig == LoadGroup \/ LoadReturn

SpecConfig == InitConfig /\ [][NextConfig]_vars

\* ------------------------------------------------- the global name dumper
\* run() of one instance while the module-level name 'dumper' is bound to
\* some instance, or to none (the module was imported, not run).
InitBinding ==
    /\ RunIdle /\ NoExports /\ NotLoading
    /\ dumper \in Instances \cup {"unbound"}
    /\ runner = "none"
    /\ bpc = "idle"
    /\ btasks = << >>

\* the instance a submitted task is bound to: line 92 evaluates
\* dumper.process_index, the global name, not self
TaskTarget(self, global) == global

\* r.run() is called; get_indices returns n index names
CallRun(r, n) ==
    /\ bpc = "idle"
    /\ runner' = r
    /\ bpc' = "submitting"
    /\ btasks' = [k \in 1..n |-> [target |-> "none", state |-> "unsubmitted"]]
    /\ UNCHANGED <<dumper, runVars, naming, loading>>

\* one turn of the for loop, the name 'dumper' being bound
SubmitBound ==
    /\ bpc = "submitting"
    /\ dumper # "unbound"
    /\ \E k \in 1..Len(btasks) :
          /\ btasks[k].state = "unsubmitted"
          /\ \A m \in 1..(k - 1) : btasks[m].state # "unsubmitted"
          /\ btasks' = [btasks EXCEPT ![k] =
                            [target |-> TaskTarget(runner, dumper),
                             state |-> "queued"]]
    /\ UNCHANGED <<dumper, runner, bpc, runVars, naming, loading>>

\* the first turn of the for loop raises NameError: 'dumper' is not defined
SubmitUnbound ==
    /\ bpc = "submitting"
    /\ dumper = "unbound"
    /\ Len(btasks) > 0
    /\ bpc' = "raised"
    /\ UNCHANGED <<dumper, runner, btasks, runVars, naming, loading>>

\* a worker runs a submitted task to its end, on the task's target
RunTask(k) ==
    /\ btasks[k].state = "queued"
    /\ btasks' = [btasks EXCEPT ![k].state = "finished"]
    /\ UNCHANGED <<dumper, runner, bpc, runVars, naming, loading>>

\* the loop is over and the pool is idle: run() returns
ReturnBound ==
    /\ bpc = "submitting"
    /\ \A k \in 1..Len(btasks) : btasks[k].state = "finished"
    /\ bpc' = "returned"
    /\ UNCHANGED <<dumper, runner, btasks, runVars, naming, loading>>

NextBinding ==
    \/ \E r \in Instances, n \in 0..MaxIndices : CallRun(r, n)
    \/ SubmitBound
    \/ SubmitUnbound
    \/ \E k \in 1..Len(btasks) : RunTask(k)
    \/ ReturnBound

SpecBinding == InitBinding /\ [][NextBinding]_vars

\* --------------------------------------------------------------- helpers
\* the artifacts present in the output directory that belong to index i
ArtifactsOf(i) ==
    {FileName(IndexName(i), ts) : ts \in 0..MaxTime} \cap DOMAIN files

\* ----------------------------------------------------------------- claims

\* C1: at any time the number of process_index tasks that have started and
\* not finished is at most the configured worker count.
C1_ConcurrencyBound == Cardinality(Running) <= workers

\* every worker busy while a further submitted index is still waiting
C1_Witness ==
    /\ Cardinality(Running) = workers
    /\ Len(indices) > workers
    /\ \E i \in Ids : st[i] = "queued"

\* C2: run() has returned only if every task it submitted has finished,
\* by completing or by raising; none is still queued or executing.
C2_ReturnsAfterAllTasks ==
    pc = "returned" =>
        /\ submitted = Len(indices)
        /\ \A k \in 1..Len(indices) : st[indices[k]] \in {"done", "failed"}

\* run() returned after one task failed and another one completed
C2_Witness ==
    /\ pc = "returned"
    /\ \E i, j \in Ids : st[i] = "failed" /\ st[j] = "done"

\* C3: a failure in the task of one index never cancels or skips the task of
\* another index: once run() has returned, every index whose own scan and
\* write raised nothing has completed and has its artifact on disk.
C3_FailureIsolated ==
    /\ \A i \in Ids : st[i] # "cancelled"
    /\ pc = "returned" =>
          \A i \in Ids :
              exc[i] = "none" =>
                  /\ st[i] = "done"
                  /\ fname[i] \in DOMAIN files
                  /\ Parse(files[fname[i]]) # <<"invalid">>

\* with one worker the first index failed while the second was still queued,
\* and the second was exported all the same
C3_Witness ==
    /\ pc = "returned"
    /\ workers = 1
    /\ Len(indices) >= 2
    /\ exc[indices[1]] # "none"
    /\ st[indices[2]] = "done"

\* C4: a scan that does not fail collects exactly the documents of the index,
\* each once, whatever the page size.
C4_ScanCollectsAll ==
    \A i \in Ids :
        st[i] \in {"collected", "writing", "done"} =>
            /\ Len(results[i]) = store[i]
            /\ \A d \in 1..store[i] :
                  \E k \in 1..Len(results[i]) :
                      /\ results[i][k] = Doc(d)
                      /\ \A m \in 1..Len(results[i]) :
                            results[i][m] = Doc(d) => m = k

\* one index read in several full pages and an empty index, both scanned
C4_Witness ==
    /\ size = 1
    /\ \E i, j \in Ids :
          /\ store[i] = 2 /\ st[i] = "collected"
          /\ store[j] = 0 /\ st[j] \in {"collected", "writing", "done"}

\* C5 (as claimed): after dump_to_file has failed, no file exists at the
\* artifact path it derived.
C5_NoFileAfterFailedWrite ==
    \A i \in Ids :
        exc[i] \in {"OpenError", "WriteError"} => fname[i] \notin DOMAIN files

\* C6 (as claimed): when run() has returned, the coordinator holds the outcome
\* of every task it submitted.
C6_OutcomesHeld ==
    pc = "returned" => \A k \in 1..Len(indices) : indices[k] \in kept

\* C7: if get_indices fails, no task is submitted, no file is written and the
\* failure leaves run() as an exception.
C7_ListingFailureFatal ==
    listing = "failed" =>
        /\ pc = "raised"
        /\ raised = "StoreUnavailable"
        /\ submitted = 0
        /\ \A i \in Ids : st[i] = "unsubmitted"
        /\ DOMAIN files = {}

\* the listing failed on a store that holds indices
C7_Witness == listing = "failed" /\ Cardinality(Ids) = MaxIndices

\* C8 (as claimed): if the listing fails, the output directory, absent before
\* the program started, is still absent.
C8_NoDirectoryOnListingFailure == listing = "failed" => ~dirExists

\* C9: a scan that fails aborts the export of its index: nothing is written
\* for the index, and no index is scanned more than once.
C9_FailedScanAborts ==
    \A i \in Ids :
        /\ searches[i] <= 1
        /\ exc[i] \in {"SearchError", "ScrollError"} =>
              /\ st[i] = "failed"
              /\ fname[i] = NoFile
              /\ ArtifactsOf(i) = {}

\* a scroll request failed after a page had been read, and the run is over
C9_Witness ==
    /\ pc = "returned"
    /\ \E i \in Ids : exc[i] = "ScrollError" /\ store[i] = MaxDocs

\* C10: the artifact of a completed task parses back to the documents the
\* scan returned, as multisets; an empty index gives an empty array.
C10_ArtifactRoundTrip ==
    \A i \in Ids :
        st[i] = "done" =>
            /\ fname[i] \in DOMAIN files
            /\ LET parsed == Parse(files[fname[i]])
               IN /\ parsed # <<"invalid">>
                  /\ Len(parsed) = Len(results[i])
                  /\ \A k \in 1..Len(parsed) :
                        Count(parsed, parsed[k]) = Count(results[i], parsed[k])
            /\ results[i] = << >> => files[fname[i]] = <<"[", "]">>

\* an empty index and an index with several documents, both written
C10_Witness ==
    \E i, j \in Ids :
        /\ st[i] = "done" /\ store[i] = 0 /\ files[fname[i]] = <<"[", "]">>
        /\ st[j] = "done" /\ store[j] = MaxDocs

\* the lines of one kind on stdout that name index i
LinesOf(kind, i) ==
    {l \in printed : l.kind = kind /\ l.index = IndexName(i)}

\* the tasks run() has submitted for index i
TasksOf(i) == {k \in 1..submitted : indices[k] = i}

\* C13 (as claimed): once run() has returned, an index has a status line
\* exactly if its export succeeded.
C13_StatusLineIffSuccess ==
    pc = "returned" =>
        \A i \in Ids : LinesOf("status", i) # {} <=> st[i] = "done"

\* C14 (as claimed): once run() has returned, every failed index has exactly
\* one error line.
C14_OneErrorLinePerFailure ==
    pc = "returned" =>
        \A i \in Ids :
            st[i] = "failed" => Cardinality(LinesOf("error", i)) = 1

\* C15: an empty listing is a valid result: no task, no artifact, no error,
\* and run() returns (it has returned or its return is the enabled step).
C15_EmptyListingIsValid ==
    listing = "ok" /\ indices = << >> =>
        /\ submitted = 0
        /\ DOMAIN files = {}
        /\ raised = "none"
        /\ pc = "returned" \/ ENABLED Return

\* run() returned from an empty listing
C15_Witness == listing = "ok" /\ indices = << >> /\ pc = "returned"

\* C18: when run() has returned, every index of the store, as listed once at
\* the start, has exactly one task, and the list is the store's indices.
C18_OneTaskPerIndex ==
    /\ listing = "ok" =>
          /\ Len(indices) = Cardinality(Ids)
          /\ \A i \in Ids : \E k \in 1..Len(indices) : indices[k] = i
    /\ \A k, m \in 1..submitted : indices[k] = indices[m] => k = m
    /\ pc = "returned" =>
          \A i \in Ids : /\ Cardinality(TasksOf(i)) = 1
                         /\ st[i] # "unsubmitted"

\* run() returned with as many tasks as the store has indices
C18_Witness ==
    pc = "returned" /\ Cardinality(Ids) = MaxIndices /\ submitted = MaxIndices

\* C11: two exports of the same index into the same directory at different
\* timestamps have different paths, and the earlier artifact is still the
\* earlier export's.
C11_StampedNamesDiffer ==
    \A k, m \in 1..Len(log) :
        /\ k < m
        /\ log[k].dir = log[m].dir
        /\ log[k].name = log[m].name
        /\ log[k].ts # log[m].ts
        => /\ log[k].path # log[m].path
           /\ tree[log[k].path] = k

\* the same index exported twice by the same dumper, at 1 and at MaxStamp
C11_Witness ==
    /\ Len(log) = 2
    /\ log[1].dir = log[2].dir /\ log[1].name = log[2].name
    /\ log[1].ts = 1 /\ log[2].ts = MaxStamp

\* C12 (as claimed): exports from two stores that differ in host or in port
\* go to different directories.
C12_DirectoryPerStore ==
    \A k, m \in 1..Len(log) :
        log[k].host # log[m].host \/ log[k].port # log[m].port
        => log[k].dir # log[m].dir

\* C20: two exports of one dumper for distinct index names have different
\* paths, whatever their timestamps.
C20_DistinctNamesDistinctPaths ==
    \A k, m \in 1..Len(log) :
        log[k].dir = log[m].dir /\ log[k].name # log[m].name
        => log[k].path # log[m].path

\* "a" stamped MaxStamp and "a1" stamped 0, exported by the same dumper
C20_Witness ==
    /\ Len(log) = 2
    /\ log[1].dir = log[2].dir
    /\ log[1].name = <<"a">> /\ log[1].ts = MaxStamp
    /\ log[2].name = <<"a", "1">> /\ log[2].ts = 0

\* the last group of the file that sets option o
LastGroupWith(o) ==
    CHOOSE g \in 1..Len(yaml) :
        /\ o \in DOMAIN yaml[g]
        /\ \A h \in (g + 1)..Len(yaml) : o \notin DOMAIN yaml[h]

\* C16: the table load_config returns holds every option name of every
\* group, each with the value of the last group that sets it.
C16_LastGroupWins ==
    loaded =>
        /\ DOMAIN flat = UNION {DOMAIN yaml[g] : g \in 1..Len(yaml)}
        /\ \A o \in DOMAIN flat : flat[o] = yaml[LastGroupWith(o)][o]

\* a file whose first two groups set "host" to different values was loaded
C16_Witness ==
    /\ loaded
    /\ Len(yaml) >= 2
    /\ "host" \in DOMAIN yaml[1] /\ "host" \in DOMAIN yaml[2]
    /\ yaml[1]["host"] # yaml[2]["host"]
    /\ "size" \in DOMAIN yaml[1] /\ "size" \notin DOMAIN yaml[2]

\* C17 (as claimed): every task submitted by run() of an instance executes
\* against that instance.
C17_TasksUseOwnInstance ==
    \A k \in 1..Len(btasks) :
        btasks[k].state # "unsubmitted" => btasks[k].target = runner

\* C19: under fair scheduling, a queued task finishes unless it stalls itself
\* or as many tasks stall as there are workers; and if no task ever stalls,
\* run() ends.
C19_StallConfined ==
    /\ \A i \in 1..MaxIndices :
          (i \in Ids /\ st[i] = "queued")
              ~> \/ i \in Ids /\ st[i] \in {"done", "failed"}
                 \/ i \in stalled
                 \/ Cardinality(stalled) >= workers
    /\ <>(stalled # {} \/ pc \in {"returned", "raised"})

\* one of two workers is blocked for good, the other index was exported
C19_Witness ==
    /\ workers = 2
    /\ Cardinality(stalled) = 1
    /\ \E i \in Ids : i \notin stalled /\ st[i] = "done"

====
